---- MODULE Spec2Model ----
(***************************************************************************)
(* Model of the L{CORE} event indexer (src/src/main.rs).                   *)
(*                                                                         *)
(* The model follows _run_indexer and the three per-contract loops         *)
(* index_verifier_registry, index_device_registry and index_iot_pipeline,  *)
(* i.e. the ingestion pipeline as it runs once the spawn at main.rs:118 is *)
(* enabled.  The chain (the logs each monitored contract has emitted) and  *)
(* the operator restarting the process are the environment.                *)
(***************************************************************************)
EXTENDS Integers, Sequences, FiniteSets, TLC

(***************************************************************************)
(* Bounds of the model.                                                    *)
(***************************************************************************)
MaxLogs == 2        \* logs emitted by all contracts together
MaxBlock == 2       \* highest block number of the chain
MaxRestarts == 1    \* process restarts

(***************************************************************************)
(* Program constants.                                                      *)
(***************************************************************************)
InitialLatestBlock == 0      \* Arc::new(RwLock::new(0))
PlaceholderBlock == 0        \* .bind(0i64) // TODO: Get from log
PlaceholderTxHash == "0x"    \* .bind("0x") // TODO: Get from log
start_block == 0             \* Config.start_block, set_default("start_block", 0)

Sources == {"verifier_registry", "device_registry", "iot_pipeline"}

NatKeys == {"a", "b"}        \* values of an event's decoded fields

(***************************************************************************)
(* Event signatures of each contract (the abigen! blocks).                 *)
(***************************************************************************)
VerifierRegistry == {"VerifierAdded", "VerifierRemoved", "OwnershipTransferred"}
DeviceRegistry == {"DeviceRegistered", "DeviceUpdated", "DeviceTransferred"}
IoTDataPipeline == {"DataSubmitted", "MarketplaceConfigUpdated"}

UnknownSig == "UnknownSig"   \* a signature hash none of the bindings knows

Signatures(s) ==
    CASE s = "verifier_registry" -> VerifierRegistry
      [] s = "device_registry" -> DeviceRegistry
      [] s = "iot_pipeline" -> IoTDataPipeline

VARIABLES
    chain,          \* chain[s]: the logs contract s has emitted, in block order
    head,           \* the chain's current block number
    db,             \* the rows of the Postgres tables
    latest_block,   \* AppState.latest_block
    run_pc,         \* position of _run_indexer
    pc,             \* pc[s]: position of the task indexing source s
    result,         \* result[s]: what the task of source s returned
    pos,            \* pos[s]: logs of chain[s] the stream has passed
    restarts,       \* process restarts so far
    prior,          \* latest_block as the previous run of the process left it
    api             \* the request the API server holds or the answer it gave last

vars == <<chain, head, db, latest_block, run_pc, pc, result, pos, restarts,
          prior, api>>

(***************************************************************************)
(* A raw log record as the subscription yields it.                         *)
(***************************************************************************)
TxHashOf(b, i) == <<"tx", b, i>>

LogIndex(s, b) == Cardinality({i \in 1..Len(chain[s]) : chain[s][i].block_number = b})

Log(s, b, topics, ok, key) ==
    [block_number |-> b,
     tx_hash |-> TxHashOf(b, LogIndex(s, b)),
     log_index |-> LogIndex(s, b),
     topics |-> topics,
     ok |-> ok,
     key |-> key]

(***************************************************************************)
(* XFilter::decode_log: the decoded event holds the event's fields only;   *)
(* a payload that does not fit the event's layout is an error.             *)
(***************************************************************************)
decode_log(log) ==
    IF log.ok THEN [ok |-> TRUE, key |-> log.key]
    ELSE [ok |-> FALSE, key |-> "none"]

(***************************************************************************)
(* The event handlers: the row each INSERT binds, and whether the          *)
(* statement carries ON CONFLICT DO NOTHING.                               *)
(***************************************************************************)
Row(table, event_type, key, on_conflict) ==
    [table |-> table, event_type |-> event_type, key |-> key,
     block_number |-> PlaceholderBlock, tx_hash |-> PlaceholderTxHash,
     on_conflict_do_nothing |-> on_conflict]

handle_verifier_added(event) == Row("verifier_events", "added", event.key, TRUE)
handle_verifier_removed(event) == Row("verifier_events", "removed", event.key, TRUE)
handle_ownership_transferred(event, contract_type) ==
    Row("ownership_transfers", contract_type, event.key, TRUE)
handle_device_registered(event) == Row("device_events", "registered", event.key, TRUE)
handle_device_updated(event) == Row("device_events", "updated", event.key, TRUE)
handle_device_transferred(event) == Row("device_transfers", "transferred", event.key, TRUE)
handle_data_submitted(event) == Row("data_submissions", "submitted", event.key, TRUE)
handle_marketplace_config_updated(event) ==
    Row("marketplace_config", "config", event.key, FALSE)

Handler(sig, event) ==
    CASE sig = "VerifierAdded" -> handle_verifier_added(event)
      [] sig = "VerifierRemoved" -> handle_verifier_removed(event)
      [] sig = "OwnershipTransferred" ->
            handle_ownership_transferred(event, "verifier_registry")
      [] sig = "DeviceRegistered" -> handle_device_registered(event)
      [] sig = "DeviceUpdated" -> handle_device_updated(event)
      [] sig = "DeviceTransferred" -> handle_device_transferred(event)
      [] sig = "DataSubmitted" -> handle_data_submitted(event)
      [] sig = "MarketplaceConfigUpdated" -> handle_marketplace_config_updated(event)

(***************************************************************************)
(* The stored row and the uniqueness constraint of the tables (the         *)
(* migrations): unique on the natural key and the provenance columns.      *)
(***************************************************************************)
Stored(row) ==
    [table |-> row.table, event_type |-> row.event_type, key |-> row.key,
     block_number |-> row.block_number, tx_hash |-> row.tx_hash]

Conflicts(row) == Stored(row) \in db

(***************************************************************************)
(* `match log.topics[0]` of the three loops: the arm taken.                *)
(***************************************************************************)
\* mutation: the `_` arm is missing, an unmatched signature is fatal
Dispatch_NoDefaultArm(s, log) ==
    IF log.topics = <<>> THEN "panic"
    ELSE IF log.topics[1] \in Signatures(s) THEN log.topics[1]
    ELSE "panic"

Dispatch(s, log) ==
    IF log.topics = <<>> THEN "panic"
    ELSE IF log.topics[1] \in Signatures(s) THEN log.topics[1]
    ELSE "unknown"

\* main installs no signal handler and hands the tasks no shutdown channel:
\* a shutdown request is a fact of the environment only (see ShutdownSignal)
ShutdownSignalled == run_pc = "shutdown"

Running == {"starting", "streaming"}
Finished == {"returned", "panicked"}

TypeOK ==
    /\ head \in 0..MaxBlock
    /\ latest_block \in 0..MaxBlock
    /\ run_pc \in {"init", "running", "failed", "shutdown", "serving"}
    /\ pc \in [Sources -> {"idle"} \cup Running \cup Finished]
    /\ result \in [Sources -> {"none", "Ok", "AddressParseError", "SubscribeError",
                           "DecodeError", "DbError",
                           "UniqueViolation"}]
    /\ pos \in [Sources -> 0..MaxLogs]
    /\ restarts \in 0..MaxRestarts
    /\ prior \in 0..MaxBlock
    /\ \A r \in db : r.block_number \in 0..MaxBlock
    /\ api.endpoint \in {"none", "/health", "/stats", "/verifiers/:address/events",
                        "/devices"}

\* the API server has answered no request yet
NoAnswer == [endpoint |-> "none"]

Init ==
    /\ chain = [s \in Sources |-> <<>>]
    /\ head = 0
    /\ db = {}
    /\ latest_block = InitialLatestBlock
    /\ run_pc = "init"
    /\ pc = [s \in Sources |-> "idle"]
    /\ result = [s \in Sources |-> "none"]
    /\ pos = [s \in Sources |-> 0]
    /\ restarts = 0
    /\ prior = InitialLatestBlock
    /\ api = NoAnswer

TotalLogs == Len(chain["verifier_registry"]) + Len(chain["device_registry"])
             + Len(chain["iot_pipeline"])

(***************************************************************************)
(* Environment: contract s emits a log in the current or a later block.    *)
(***************************************************************************)
EmitLog(s) ==
    /\ TotalLogs < MaxLogs
    /\ \E b \in 1..MaxBlock :
         /\ b >= head
         /\ head' = b
         /\ \/ \E topics \in {<<>>, <<UnknownSig>>} :
                 chain' = [chain EXCEPT ![s] = Append(@, Log(s, b, topics, FALSE, "none"))]
            \/ \E sig \in Signatures(s) :
                 \/ chain' = [chain EXCEPT ![s] =
                                  Append(@, Log(s, b, <<sig>>, FALSE, "none"))]
                 \/ \E k \in NatKeys :
                      chain' = [chain EXCEPT ![s] =
                                   Append(@, Log(s, b, <<sig>>, TRUE, k))]
    /\ UNCHANGED <<db, latest_block, run_pc, pc, result, pos, restarts, prior, api>>

(***************************************************************************)
(* _run_indexer: connect, read the current block into latest_block, spawn  *)
(* the three tasks.  A failed connect or get_block_number returns Err.     *)
(***************************************************************************)
SpawnTasks == [s \in Sources |-> "starting"]

RunIndexer ==
    /\ run_pc = "init"
    /\ \/ /\ run_pc' = "running"
          /\ latest_block' = head
          /\ pc' = SpawnTasks
       \/ /\ run_pc' = "failed"
          /\ UNCHANGED <<latest_block, pc>>
    /\ UNCHANGED <<chain, head, db, result, pos, restarts, prior, api>>

(***************************************************************************)
(* Filter::new().address(..).from_block(start_block), subscribe_logs: the  *)
(* stream yields the contract's logs of block start_block and later.       *)
(***************************************************************************)
FromBlock(s) == start_block

\* mutation: the filter also names the known topics, so that the logs of an
\* unrecognised signature are held back with those below the start block
Skipped_TopicFilter(s, from) ==
    Cardinality({i \in 1..Len(chain[s]) :
                    \/ chain[s][i].block_number < from
                    \/ chain[s][i].topics = <<>>
                    \/ chain[s][i].topics[1] \notin Signatures(s)})

Skipped(s, from) ==
    Cardinality({i \in 1..Len(chain[s]) : chain[s][i].block_number < from})

Subscribe(s) ==
    /\ pc[s] = "starting"
    /\ \/ /\ pc' = [pc EXCEPT ![s] = "streaming"]
          /\ pos' = [pos EXCEPT ![s] = Skipped(s, FromBlock(s))]
          /\ UNCHANGED result
       \/ \E r \in {"AddressParseError", "SubscribeError"} :
             /\ pc' = [pc EXCEPT ![s] = "returned"]
             /\ result' = [result EXCEPT ![s] = r]
             /\ UNCHANGED pos
    /\ UNCHANGED <<chain, head, db, latest_block, run_pc, restarts, prior, api>>

(***************************************************************************)
(* One iteration of `while let Some(log) = stream.next().await`.           *)
(***************************************************************************)
NextLog(s) == chain[s][pos[s] + 1]

\* mutation: a task that returns takes the other running tasks down with it
Return_CancelsOthers(s, r) ==
    /\ pc' = [t \in Sources |-> IF pc[t] \in Running THEN "returned" ELSE pc[t]]
    /\ result' = [t \in Sources |->
                    IF t = s THEN r
                    ELSE IF pc[t] \in Running THEN "Cancelled" ELSE result[t]]
    /\ pos' = [t \in Sources |-> IF pc[t] \in Running THEN 0 ELSE pos[t]]

\* the task of source s leaves its loop with result r
Return(s, r) ==
    /\ pc' = [pc EXCEPT ![s] = "returned"]
    /\ result' = [result EXCEPT ![s] = r]
    /\ pos' = [pos EXCEPT ![s] = 0]

\* `*latest = block_number.as_u64()` at the end of an iteration
UpdateLatest(log) == log.block_number

HandleLog(s) ==
    /\ pc[s] = "streaming"
    /\ pos[s] < Len(chain[s])
    /\ LET log == NextLog(s)
           arm == Dispatch(s, log)
       IN  /\ CASE arm = "panic" ->
                     /\ pc' = [pc EXCEPT ![s] = "panicked"]
                     /\ pos' = [pos EXCEPT ![s] = 0]
                     /\ UNCHANGED <<db, latest_block, result>>
                [] arm = "unknown" ->
                     /\ latest_block' = UpdateLatest(log)
                     /\ pos' = [pos EXCEPT ![s] = @ + 1]
                     /\ UNCHANGED <<db, pc, result>>
                [] OTHER ->
                     LET event == decode_log(log)
                         row == Handler(arm, event)
                     IN  IF ~event.ok
                         THEN /\ Return(s, "DecodeError")
                              /\ UNCHANGED <<db, latest_block>>
                         ELSE \/ /\ Conflicts(row) => row.on_conflict_do_nothing
                                 /\ db' = db \cup {Stored(row)}
                                 /\ latest_block' = UpdateLatest(log)
                                 /\ pos' = [pos EXCEPT ![s] = @ + 1]
                                 /\ UNCHANGED <<pc, result>>
                              \/ /\ Conflicts(row) /\ ~row.on_conflict_do_nothing
                                 /\ Return(s, "UniqueViolation")
                                 /\ UNCHANGED <<db, latest_block>>
                              \/ /\ Return(s, "DbError")
                                 /\ UNCHANGED <<db, latest_block>>
    /\ UNCHANGED <<chain, head, run_pc, restarts, prior, api>>

(***************************************************************************)
(* stream.next() yields None (the subscription or its connection ended):   *)
(* the loop is left and the function returns Ok(()).                       *)
(***************************************************************************)
StreamEnd(s) ==
    /\ pc[s] = "streaming"
    /\ Return(s, "Ok")
    /\ UNCHANGED <<chain, head, db, latest_block, run_pc, restarts, prior, api>>

(***************************************************************************)
(* The operator restarts the process: memory is lost, the database and the *)
(* chain are kept.                                                         *)
(***************************************************************************)
Restart ==
    /\ restarts < MaxRestarts
    /\ run_pc # "init"
    /\ restarts' = restarts + 1
    /\ prior' = latest_block
    /\ run_pc' = "init"
    /\ latest_block' = InitialLatestBlock
    /\ pc' = [s \in Sources |-> "idle"]
    /\ result' = [s \in Sources |-> "none"]
    /\ pos' = [s \in Sources |-> 0]
    /\ UNCHANGED <<chain, head, db, api>>

Next ==
    \/ \E s \in Sources : EmitLog(s)
    \/ RunIndexer
    \/ \E s \in Sources : Subscribe(s)
    \/ \E s \in Sources : HandleLog(s)
    \/ \E s \in Sources : StreamEnd(s)
    \/ Restart

Spec == Init /\ [][Next]_vars

(***************************************************************************)
(* The tokio runtime schedules every spawned task that can take a step;    *)
(* the chain, the failures and the operator's restarts are not obliged to  *)
(* happen.                                                                 *)
(***************************************************************************)
FairSpec ==
    /\ Spec
    /\ WF_vars(RunIndexer)
    /\ \A s \in Sources : WF_vars(Subscribe(s)) /\ WF_vars(HandleLog(s))

(***************************************************************************)
(* The operator asks the running process to shut down.  Nothing in main,   *)
(* _run_indexer or the three loops awaits a signal or reads a flag, so the *)
(* request changes nothing the tasks look at: they go on as before.        *)
(***************************************************************************)
ShutdownSignal ==
    /\ run_pc = "running"
    /\ run_pc' = "shutdown"
    /\ UNCHANGED <<chain, head, db, latest_block, pc, result, pos, restarts, prior, api>>

ShutdownNext ==
    \/ \E s \in Sources : EmitLog(s)
    \/ RunIndexer
    \/ \E s \in Sources : Subscribe(s)
    \/ \E s \in Sources : HandleLog(s)
    \/ \E s \in Sources : StreamEnd(s)
    \/ ShutdownSignal

\* one run of the process with a shutdown request, the tasks fairly scheduled
ShutdownSpec ==
    /\ Init
    /\ [][ShutdownNext]_vars
    /\ WF_vars(RunIndexer)
    /\ \A s \in Sources : WF_vars(Subscribe(s)) /\ WF_vars(HandleLog(s))

(***************************************************************************)
(* Vocabulary of the properties.                                           *)
(***************************************************************************)
Known(s, log) == log.topics # <<>> /\ log.topics[1] \in Signatures(s)
Unknown(s, log) == log.topics # <<>> /\ log.topics[1] \notin Signatures(s)
WellFormed(s, log) == Known(s, log) /\ log.ok
Malformed(s, log) == Known(s, log) /\ ~log.ok

\* the row a well-formed log of a known kind is written as
RowOf(log) == Stored(Handler(log.topics[1], decode_log(log)))

\* the rows holding the event of the i-th log of source s
RowsFor(s, i) ==
    {r \in db : /\ r.table = RowOf(chain[s][i]).table
                /\ r.event_type = RowOf(chain[s][i]).event_type
                /\ r.key = RowOf(chain[s][i]).key}

\* a step of the task of source s that takes the next log off its stream
Handles(s) == HandleLog(s)

\* a step that takes the next log and stays in the loop
Continues(s) == Handles(s) /\ pc'[s] = "streaming" /\ pos'[s] = pos[s] + 1

(***************************************************************************)
(* C1.  Idempotence: for every source and every event kind, persisting a   *)
(* log whose row is already stored (a re-delivery) is a successful no-op:  *)
(* the task stays in its loop, the database is unchanged and no task ever  *)
(* ends on a duplicate-key error.                                          *)
(***************************************************************************)
\* the next log of source s was persisted before: its row is stored, and no
\* other log of the chain is written as that row
Redelivered(s) ==
    /\ pc[s] = "streaming"
    /\ pos[s] < Len(chain[s])
    /\ WellFormed(s, NextLog(s))
    /\ RowOf(NextLog(s)) \in db
    /\ \A j \in 1..Len(chain[s]) :
          (j # pos[s] + 1 /\ WellFormed(s, chain[s][j]))
              => RowOf(chain[s][j]) # RowOf(NextLog(s))

C1_Original ==
    [][\A s \in Sources :
         (Redelivered(s) /\ Handles(s) /\ result'[s] # "DbError")
             => (db' = db /\ pc'[s] = "streaming")]_vars

(***************************************************************************)
(* C8.  Provenance: every stored row carries the block number and the      *)
(* transaction hash of a log of the chain that it was decoded from.        *)
(***************************************************************************)
C8_Original ==
    \A r \in db :
        \E s \in Sources : \E i \in 1..Len(chain[s]) :
            /\ WellFormed(s, chain[s][i])
            /\ r \in RowsFor(s, i)
            /\ r.block_number = chain[s][i].block_number
            /\ r.tx_hash = chain[s][i].tx_hash

(***************************************************************************)
(* C2.  Atomic block boundary: the progress value is advanced per          *)
(* completed block, not per record: a task sets it to a block number only  *)
(* when the log it has just handled is the last log of that block, so it   *)
(* never reaches a block of which logs are still to be written.            *)
(***************************************************************************)
\* no event of the block of the i-th log of source s is still to be written
LastOfBlock(s, i) ==
    \A j \in (i + 1)..Len(chain[s]) :
        WellFormed(s, chain[s][j])
            => chain[s][j].block_number # chain[s][i].block_number

C2_Original ==
    [][\A s \in Sources :
         (Continues(s) /\ latest_block' = NextLog(s).block_number)
             => LastOfBlock(s, pos[s] + 1)]_vars

(***************************************************************************)
(* C3.  Resume correctness: when the previous run of the process left the  *)
(* progress value at block N, the restarted process opens each source's    *)
(* stream at block N + 1: no log of a block <= N is requested again and no *)
(* log of block N + 1 is skipped.                                          *)
(***************************************************************************)
C3_Original ==
    [][\A s \in Sources :
         (restarts > 0 /\ Subscribe(s) /\ pc'[s] = "streaming")
             => pos'[s] = Skipped(s, prior + 1)]_vars

(***************************************************************************)
(* C6.  Decode validation: a log of a known signature whose payload is     *)
(* malformed is skipped: the task stays in its loop, the progress value    *)
(* and the database are unchanged, so later logs of the block are still    *)
(* taken.                                                                  *)
(***************************************************************************)
C6_Original ==
    [][\A s \in Sources :
         (pc[s] = "streaming" /\ pos[s] < Len(chain[s])
            /\ Malformed(s, NextLog(s)) /\ Handles(s))
             => (pc'[s] = "streaming" /\ pos'[s] = pos[s] + 1
                   /\ db' = db /\ latest_block' = latest_block)]_vars

(***************************************************************************)
(* C5.  Unknown-signature tolerance: handling a log whose first topic is   *)
(* no signature of its source writes no row and raises no error; the task  *)
(* stays in its loop and goes on to the next log.                          *)
(***************************************************************************)
C5_UnknownTolerated ==
    [][\A s \in Sources :
         (pc[s] = "streaming" /\ pos[s] < Len(chain[s])
            /\ Unknown(s, NextLog(s)) /\ Handles(s))
             => (db' = db /\ pc'[s] = "streaming" /\ result'[s] = "none"
                   /\ pos'[s] = pos[s] + 1)]_vars

\* an unknown log was passed and the next log of the same block is stored
C5_Witness ==
    \E s \in Sources :
        /\ pc[s] = "streaming"
        /\ pos[s] = 2
        /\ Unknown(s, chain[s][1])
        /\ WellFormed(s, chain[s][2])
        /\ chain[s][1].block_number = chain[s][2].block_number
        /\ RowOf(chain[s][2]) \in db

(***************************************************************************)
(* C7.  Independent source isolation: a step in which the task of one      *)
(* source ends (stream end, error or panic) changes neither latest_block   *)
(* nor the database nor the state of any other source's task; every other  *)
(* task that could take its next log still can.                            *)
(***************************************************************************)
Fails(s) == pc[s] \in Running /\ pc'[s] \in Finished

CanAdvance(t) == pc[t] = "streaming" /\ pos[t] < Len(chain[t])

C7_Isolation ==
    [][\A s \in Sources :
         Fails(s) =>
             /\ latest_block' = latest_block
             /\ db' = db
             /\ \A t \in Sources \ {s} :
                  /\ pc'[t] = pc[t]
                  /\ pos'[t] = pos[t]
                  /\ result'[t] = result[t]
                  /\ CanAdvance(t) => CanAdvance(t)']_vars

\* one task has left its loop (stream end, error or panic) while another one
\* streams and has stored the log that latest_block reports
C7_Witness ==
    \E s \in Sources : \E t \in Sources \ {s} :
        /\ pc[s] \in Finished
        /\ result[s] \in {"none", "Ok", "DecodeError", "DbError"}
        /\ pc[t] = "streaming"
        /\ pos[t] >= 1
        /\ WellFormed(t, chain[t][pos[t]])
        /\ RowOf(chain[t][pos[t]]) \in db
        /\ latest_block = chain[t][pos[t]].block_number

(***************************************************************************)
(* C4.  Exactly-once ingestion: every well-formed log of a known kind at   *)
(* or after the start block is eventually stored, in exactly one row,      *)
(* whatever disconnects, re-deliveries and restarts happen.  Stated on     *)
(* states: such a log is stored in exactly one row, or the task of its     *)
(* source has not ended and is still to store it.                          *)
(***************************************************************************)
PersistedOnce(s, i) == Cardinality(RowsFor(s, i)) = 1

C4_Original ==
    \A s \in Sources : \A i \in 1..Len(chain[s]) :
        (WellFormed(s, chain[s][i]) /\ chain[s][i].block_number >= start_block)
            => (PersistedOnce(s, i) \/ pc[s] \notin Finished)

(***************************************************************************)
(* C9.  Unbounded reconnect: whenever the stream of a source has ended     *)
(* (its connection is lost) and no shutdown was signalled, the task of     *)
(* that source goes back to subscribing; it never gives up.  Stated on     *)
(* states: after a lost connection the task can still subscribe.           *)
(***************************************************************************)
\* stream.next() yielded None and the loop was left
ConnectionLost(s) == pc[s] = "returned" /\ result[s] = "Ok"

C9_Original ==
    \A s \in Sources :
        (ConnectionLost(s) /\ ~ShutdownSignalled) => ENABLED Subscribe(s)

(***************************************************************************)
(* C10.  A task reaches its terminal state only on an explicit shutdown    *)
(* signal: no stream end, connection loss, decode error or persistence     *)
(* error finishes it.                                                      *)
(***************************************************************************)
C10_Original ==
    \A s \in Sources : pc[s] \in Finished => ShutdownSignalled

(***************************************************************************)
(* C11.  A persistence failure while a record is handled takes the same    *)
(* backoff-and-resubscribe path as a lost connection: the progress value   *)
(* is not advanced and the task goes back to subscribing, so that the      *)
(* block is retried.  Stated on states: a task whose write has failed can  *)
(* still subscribe.                                                        *)
(***************************************************************************)
PersistenceFailure(s) ==
    pc[s] = "returned" /\ result[s] \in {"DbError", "UniqueViolation"}

C11_Original ==
    \A s \in Sources :
        (PersistenceFailure(s) /\ ~ShutdownSignalled) => ENABLED Subscribe(s)

(***************************************************************************)
(* C12.  Writes are atomic per block: a step that stores events of a      *)
(* block stores all the events of that block and moves the progress value  *)
(* to it, or stores none; the database never receives a strict non-empty   *)
(* subset of a block's events.                                             *)
(***************************************************************************)
EventsOfBlock(s, b) ==
    { i \in 1..Len(chain[s]) :
        chain[s][i].block_number = b /\ WellFormed(s, chain[s][i]) }

C12_Original ==
    [][\A s \in Sources :
          (Handles(s) /\ db' # db) =>
              /\ \A i \in EventsOfBlock(s, NextLog(s).block_number) :
                    RowOf(chain[s][i]) \in db'
              /\ latest_block' = NextLog(s).block_number]_vars

(***************************************************************************)
(* C13.  Resume point: a task starts processing at the later of the        *)
(* configured start block and the block following the stored cursor, and   *)
(* at the configured start block when no cursor is stored.                 *)
(***************************************************************************)
\* the cursor left behind by the previous run of the process, if there was one
CursorStored == restarts > 0

StartingPoint ==
    IF ~CursorStored THEN start_block
    ELSE IF prior + 1 > start_block THEN prior + 1 ELSE start_block

C13_Original ==
    [][\A s \in Sources :
          (Subscribe(s) /\ pc'[s] = "streaming")
              => pos'[s] = Skipped(s, StartingPoint)]_vars

(***************************************************************************)
(* C14.  Shutdown: after a shutdown signal every source task eventually    *)
(* stops waiting on its stream and reaches Stopped, so that the process    *)
(* can exit once all of them have stopped.                                 *)
(***************************************************************************)
Stopped(s) == pc[s] \notin Running

C14_Original == ShutdownSignalled ~> (\A s \in Sources : Stopped(s))

(***************************************************************************)
(* C15.  Single writer per health entry: a task updates only the entry of  *)
(* its own source.  While the progress value shows the block reported by   *)
(* source t, a step of the task of another source does not replace it.     *)
(***************************************************************************)
\* source t has reported progress in this run: it has passed a log
Reported(t) == pc[t] = "streaming" /\ pos[t] >= 1

\* the block source t reported last
ProgressOf(t) == chain[t][pos[t]].block_number

C15_Original ==
    [][\A s \in Sources : \A t \in Sources \ {s} :
          (Handles(s) /\ Reported(t) /\ latest_block = ProgressOf(t))
              => latest_block' = ProgressOf(t)]_vars

(***************************************************************************)
(* GET /health: the handler reads the shared latest_block and answers      *)
(* with a fixed status.                                                    *)
(***************************************************************************)
health_check == [status |-> "healthy", latest_block |-> latest_block]

(***************************************************************************)
(* C16.  The health surface reflects every source: a source whose loop     *)
(* has ended or whose connection is lost is reported as reconnecting or    *)
(* failed, never as healthy.                                               *)
(***************************************************************************)
C16_Original ==
    \A s \in Sources :
        pc[s] \in Finished => health_check.status \in {"reconnecting", "failed"}

(***************************************************************************)
(* C17.  Persist before progress: the progress value is never ahead of the *)
(* persisted data.  Every well-formed log of a block below the progress    *)
(* value (a block that is complete on the chain) has its row stored.       *)
(***************************************************************************)
C17_Original ==
    \A s \in Sources : \A i \in 1..Len(chain[s]) :
        (/\ WellFormed(s, chain[s][i])
         /\ chain[s][i].block_number >= start_block
         /\ chain[s][i].block_number < latest_block)
            => RowOf(chain[s][i]) \in db

(***************************************************************************)
(* C18.  Deduplication loses no distinct event: two logs of one source     *)
(* that differ in (block, transaction, log index) and were both persisted  *)
(* are two rows, also when their natural keys are the same.                *)
(***************************************************************************)
Provenance(log) == <<log.block_number, log.tx_hash, log.log_index>>

\* the task of source s has handled its i-th log and gone on
Passed(s, i) == pc[s] = "streaming" /\ i <= pos[s]

C18_Original ==
    \A s \in Sources : \A i, j \in 1..Len(chain[s]) :
        (/\ i < j
         /\ Passed(s, i) /\ Passed(s, j)
         /\ WellFormed(s, chain[s][i]) /\ WellFormed(s, chain[s][j])
         /\ Provenance(chain[s][i]) # Provenance(chain[s][j]))
            => \E r1, r2 \in db :
                  r1 # r2 /\ r1 \in RowsFor(s, i) /\ r2 \in RowsFor(s, j)

(***************************************************************************)
(* C19.  The filter restricts by address and start block only, never by    *)
(* topic: a subscription holds back exactly the logs of the address that   *)
(* lie below the start block, and the loop then takes the logs one by one, *)
(* so the logs of an unrecognised signature reach the dispatch too.        *)
(***************************************************************************)
BelowStart(s) ==
    {i \in 1..Len(chain[s]) : chain[s][i].block_number < start_block}

C19_ForwardsAll ==
    [][\A s \in Sources :
          /\ (Subscribe(s) /\ pc'[s] = "streaming")
                => pos'[s] = Cardinality(BelowStart(s))
          /\ (Handles(s) /\ pc'[s] = "streaming")
                => pos'[s] = pos[s] + 1]_vars

\* a log of an unrecognised signature, first of its stream, was delivered to
\* the loop and passed by it
C19_Witness ==
    \E s \in Sources :
        /\ pc[s] = "streaming"
        /\ pos[s] = 1
        /\ Unknown(s, chain[s][1])
        /\ latest_block = chain[s][1].block_number

(***************************************************************************)
(* C20.  Cross-source frame: a step that handles a log of one source       *)
(* changes only that source's rows and that source's progress; the rows    *)
(* and the progress of every other source are as before.                   *)
(***************************************************************************)
\* the stored rows that the handlers of source t write
RowsOfSource(t) ==
    {r \in db : \E sig \in Signatures(t), k \in NatKeys :
                   r = RowOf(Log(t, 1, <<sig>>, TRUE, k))}

C20_Original ==
    [][\A s \in Sources : \A t \in Sources \ {s} :
          Handles(s) =>
              /\ RowsOfSource(t)' = RowsOfSource(t)
              /\ Reported(t) => latest_block' = latest_block]_vars

(***************************************************************************)
(* C21.  Reconnect backoff: a failed subscribe attempt is followed, after  *)
(* a delay that grows with the number of consecutive failures but never    *)
(* exceeds a fixed ceiling, by the next attempt.  Stated on states: a task *)
(* whose subscribe attempt has failed still has a subscribe attempt ahead  *)
(* of it.                                                                  *)
(***************************************************************************)
SubscribeFailed(s) == pc[s] = "returned" /\ result[s] = "SubscribeError"

C21_Original ==
    \A s \in Sources :
        (SubscribeFailed(s) /\ ~ShutdownSignalled) => ENABLED Subscribe(s)

(***************************************************************************)
(* C22.  An unparseable contract address is fatal to the process: when the *)
(* address of a source does not parse, no source is streaming, so that the *)
(* process does not go on with that source silently absent.                *)
(***************************************************************************)
AddressUnparseable(s) == pc[s] = "returned" /\ result[s] = "AddressParseError"

C22_Original ==
    \A s \in Sources :
        AddressUnparseable(s) => \A t \in Sources : pc[t] # "streaming"

(***************************************************************************)
(* C23.  The latest_block value exposed to readers never decreases during  *)
(* a run of the indexer: once it has been initialised to the chain head,   *)
(* no step of the three loops sets it to a smaller block.                  *)
(***************************************************************************)
C23_Original ==
    [][(\E s \in Sources : Handles(s)) => latest_block' >= latest_block]_vars

(***************************************************************************)
(* C24.  Dispatch is total over the delivered logs: every log a stream     *)
(* yields, a log with an empty topic list included, is dispatched to one   *)
(* of the source's known kinds or to the unknown arm, and no task panics.  *)
(***************************************************************************)
C24_Original ==
    [][\A s \in Sources :
          Handles(s) =>
              /\ Dispatch(s, NextLog(s)) \in Signatures(s) \cup {"unknown"}
              /\ pc'[s] # "panicked"]_vars

(***************************************************************************)
(* The paginated endpoints of api.rs.  page and limit are u32; a u32 is    *)
(* kept at its full width as four limbs of eight bits, least significant   *)
(* limb first, and an i64 or an exact product as eight limbs.              *)
(***************************************************************************)
LimbBase == 256
U32Limbs == 4
I64Limbs == 8

U32(n) == [i \in 1..U32Limbs |-> (n \div (LimbBase ^ (i - 1))) % LimbBase]
U32Zero == [i \in 1..U32Limbs |-> 0]
U32Max == [i \in 1..U32Limbs |-> LimbBase - 1]

default_page == U32(1)
default_limit == U32(20)

\* a - 1 in u32 arithmetic that wraps
WrappingDec(a) ==
    IF a = U32Zero THEN U32Max
    ELSE LET k == CHOOSE i \in 1..U32Limbs :
                      a[i] # 0 /\ \A j \in 1..(i - 1) : a[j] = 0
         IN  [i \in 1..U32Limbs |->
                 IF i < k THEN LimbBase - 1 ELSE IF i = k THEN a[i] - 1 ELSE a[i]]

\* long multiplication: the limb products of weight k, and the carry into k
Term(a, b, k, i) ==
    IF (k - i + 2) \in 1..U32Limbs THEN a[i] * b[k - i + 2] ELSE 0

Column(a, b, k) ==
    Term(a, b, k, 1) + Term(a, b, k, 2) + Term(a, b, k, 3) + Term(a, b, k, 4)

RECURSIVE Carry(_, _, _)
Carry(a, b, k) ==
    IF k = 0 THEN 0 ELSE (Column(a, b, k - 1) + Carry(a, b, k - 1)) \div LimbBase

\* the exact product of two u32 values, eight limbs
Product(a, b) ==
    [k \in 1..I64Limbs |-> (Column(a, b, k - 1) + Carry(a, b, k - 1)) % LimbBase]

\* the product does not fit a u32
Overflows(p) == \E k \in (U32Limbs + 1)..I64Limbs : p[k] # 0

\* `x as i64` of a u32: zero extension
as_i64(u) == [k \in 1..I64Limbs |-> IF k <= U32Limbs THEN u[k] ELSE 0]

(***************************************************************************)
(* `((pagination.page - 1) * pagination.limit) as i64`.  With overflow     *)
(* checks (a debug build) an overflowing subtraction or product panics;    *)
(* without them (a release build) both wrap.                               *)
(***************************************************************************)
offset(page, limit, overflow_checks) ==
    LET product == Product(WrappingDec(page), limit)
    IN  IF overflow_checks /\ (page = U32Zero \/ Overflows(product))
        THEN [kind |-> "panic"]
        ELSE [kind |-> "value",
              digits |-> as_i64([k \in 1..U32Limbs |-> product[k]])]

\* the values of page and limit a request is drawn from
U32Samples ==
    {U32Zero, default_page, U32(2), U32(3), default_limit, U32(65535),
     U32(65536), U32(65537), U32(2147483647), U32Max}

PaginatedEndpoints == {"/verifiers/:address/events", "/devices"}

\* Query(pagination): a request with its page and limit, not yet answered
PaginationInit ==
    /\ chain = [s \in Sources |-> <<>>]
    /\ head = 0
    /\ db = {}
    /\ latest_block = InitialLatestBlock
    /\ run_pc = "init"
    /\ pc = [s \in Sources |-> "idle"]
    /\ result = [s \in Sources |-> "none"]
    /\ pos = [s \in Sources |-> 0]
    /\ restarts = 0
    /\ prior = InitialLatestBlock
    /\ api \in [endpoint : PaginatedEndpoints, page : U32Samples,
                limit : U32Samples, offset : {[kind |-> "pending"]}]

\* the handler computes the offset of the request it holds
Paginate(endpoint) ==
    /\ api.endpoint = endpoint
    /\ api.offset.kind = "pending"
    /\ \E overflow_checks \in BOOLEAN :
          api' = [api EXCEPT !.offset = offset(api.page, api.limit, overflow_checks)]
    /\ UNCHANGED <<chain, head, db, latest_block, run_pc, pc, result, pos,
                   restarts, prior>>

get_verifier_events == Paginate("/verifiers/:address/events")
get_devices == Paginate("/devices")

PaginationNext == get_verifier_events \/ get_devices

PaginationSpec == PaginationInit /\ [][PaginationNext]_vars

(***************************************************************************)
(* C25.  Pagination offset: for every page and limit of a request, the     *)
(* offset the handler computes is the non-negative integer                 *)
(* (page - 1) * limit; nothing underflows or overflows.                    *)
(***************************************************************************)
\* (page - 1) * limit over the integers
ExactOffset(page, limit) ==
    IF page = U32Zero
    THEN IF limit = U32Zero THEN [kind |-> "value", digits |-> as_i64(U32Zero)]
                            ELSE [kind |-> "negative"]
    ELSE [kind |-> "value", digits |-> Product(WrappingDec(page), limit)]

Answered == api.endpoint \in PaginatedEndpoints /\ api.offset.kind # "pending"

C25_Original ==
    Answered =>
        /\ api.offset.kind = "value"
        /\ ExactOffset(api.page, api.limit).kind = "value"
        /\ api.offset.digits = ExactOffset(api.page, api.limit).digits

(***************************************************************************)
(* The program as main wires it (main.rs and main_simple.rs): the state is *)
(* created, the API server is spawned and awaited; the spawn of the        *)
(* indexer is commented out.  The server routes /health and /stats.        *)
(***************************************************************************)
\* GET /stats: fixed counts and the shared latest_block
get_stats ==
    [verifier_count |-> 0, device_count |-> 0, data_submission_count |-> 0,
     latest_block |-> latest_block]

\* mutation: main also spawns the indexer, which sets latest_block to the head
\* of the chain and spawns the three tasks
main_SpawnsIndexer ==
    /\ run_pc = "init"
    /\ run_pc' = "serving"
    /\ latest_block' = head
    /\ pc' = SpawnTasks
    /\ UNCHANGED <<chain, head, db, result, pos, restarts, prior, api>>

main ==
    /\ run_pc = "init"
    /\ run_pc' = "serving"
    /\ UNCHANGED <<chain, head, db, latest_block, pc, result, pos, restarts,
                   prior, api>>

\* the server answers a request to one of its two routes
Serve(endpoint, body) ==
    /\ run_pc = "serving"
    /\ api' = [endpoint |-> endpoint, body |-> body]
    /\ UNCHANGED <<chain, head, db, latest_block, run_pc, pc, result, pos,
                   restarts, prior>>

MainNext ==
    \/ \E s \in Sources : EmitLog(s)
    \/ main
    \/ Serve("/health", health_check)
    \/ Serve("/stats", get_stats)

MainSpec == Init /\ [][MainNext]_vars

(***************************************************************************)
(* C26.  In the program as wired by main no ingestion task is ever         *)
(* spawned: latest_block stays at its initial value 0, no row is written,  *)
(* and /health and /stats report latest_block = 0, /health with status     *)
(* "healthy", whatever the contracts emit.                                 *)
(***************************************************************************)
C26_NoIngestion ==
    /\ latest_block = InitialLatestBlock
    /\ db = {}
    /\ \A s \in Sources : pc[s] = "idle"
    /\ api.endpoint = "/health"
          => api.body = [status |-> "healthy", latest_block |-> 0]
    /\ api.endpoint = "/stats" => api.body.latest_block = 0

\* the chain has moved on and holds a well-formed log of a known kind, and
\* the server has answered /health
C26_Witness ==
    /\ run_pc = "serving"
    /\ head > 0
    /\ \E s \in Sources : \E i \in 1..Len(chain[s]) : WellFormed(s, chain[s][i])
    /\ api.endpoint = "/health"
====
